---- MODULE Spec2Model ----
(***************************************************************************)
(* Model of the transactions engine (src/src/engine.rs) over its storage   *)
(* (src/src/storage.rs), accounts (src/src/account.rs) and transactions    *)
(* (src/src/transaction.rs).                                               *)
(*                                                                         *)
(* Money (Decimal4) is an integer number of 0.0001 units: every amount     *)
(* that enters the engine is already rounded to four fractional digits and *)
(* the engine only adds and subtracts.                                     *)
(*                                                                         *)
(* An Option<T> is a set with at most one element: {} is None, {v} is      *)
(* Some(v).                                                                *)
(***************************************************************************)
EXTENDS Integers, FiniteSets, Sequences, TLC

\* ------------------------------------------------------------------------
\* Bounds of the model
\* ------------------------------------------------------------------------
MaxAcc == 2
MaxTx == 2
MaxAmount == 2
MaxCommits == 4
\* the largest mantissa and scale of the decimals that are rounded
MaxMantissa == 30
MaxScale == 6

AccIds == 1..MaxAcc
TxIds == 1..MaxTx
\* amounts an operation may carry; 0 is the non-positive representative
Amounts == 0..MaxAmount

\* width of the version counters (u16)
U16 == 65536

\* ------------------------------------------------------------------------
\* Results (Result<(), EngineError>)
\* ------------------------------------------------------------------------
NoState == "-"

Ok == [tag |-> "Ok", from |-> NoState, to |-> NoState, owner |-> 0]

Err(tag) == [tag |-> tag, from |-> NoState, to |-> NoState, owner |-> 0]

ForbiddenTxStateTransition(from, to) ==
    [tag |-> "ForbiddenTxStateTransition", from |-> from, to |-> to, owner |-> 0]

TransactionIsBoundToAnotherAccount(owner) ==
    [tag |-> "TransactionIsBoundToAnotherAccount", from |-> NoState, to |-> NoState,
     owner |-> owner]

\* impl From<DbError> for EngineError
FromDbError(err) ==
    IF err \in {"EntityAlreadyExists", "ConcurrentModification"}
    THEN Err("ConcurrentOperationDetected")
    ELSE Err("DatabaseError")

\* ------------------------------------------------------------------------
\* Decimal4
\* ------------------------------------------------------------------------
is_positive(amount) == amount > 0

\* ------------------------------------------------------------------------
\* Account
\* ------------------------------------------------------------------------
\* whether the build traps integer overflow (the dev profile) or wraps (the
\* release profile); fixed by Init
VARIABLE overflow_checks

\* `self.version += 1` on a u16 that holds 65535: a build with overflow checks
\* panics, a build without them wraps to 0
version_overflows(version) == version + 1 = U16 /\ overflow_checks

\* an account that starts with funds
Account_new_with_funds(id) ==
    [id |-> id, available |-> 1, held |-> 0, locked |-> FALSE, version |-> 0]

Account_new(id) ==
    [id |-> id, available |-> 0, held |-> 0, locked |-> FALSE, version |-> 0]

total(acc) == acc.available + acc.held

\* Every Account method returns [err, acc]: err = "" on success, "panic" when
\* the method panics, and acc is the receiver after the call (unchanged when
\* the method fails).
\* deposit that leaves the concurrency token as it was
Account_deposit_keeping_version(acc, amount) ==
    IF ~is_positive(amount) THEN [err |-> "AmountIsNotPositive", acc |-> acc]
    ELSE IF acc.locked THEN [err |-> "AccountLocked", acc |-> acc]
    ELSE [err |-> "", acc |-> [acc EXCEPT !.available = @ + amount]]

Account_deposit(acc, amount) ==
    IF ~is_positive(amount) THEN [err |-> "AmountIsNotPositive", acc |-> acc]
    ELSE IF acc.locked THEN [err |-> "AccountLocked", acc |-> acc]
    ELSE IF version_overflows(acc.version) THEN [err |-> "panic", acc |-> acc]
    ELSE [err |-> "",
          acc |-> [acc EXCEPT !.available = @ + amount,
                              !.version = (@ + 1) % U16]]

\* withdraw without the guard on the locked flag
Account_withdraw_ignoring_lock(acc, amount) ==
    IF ~is_positive(amount) THEN [err |-> "AmountIsNotPositive", acc |-> acc]
    ELSE IF amount > acc.available THEN [err |-> "InsufficientFunds", acc |-> acc]
    ELSE [err |-> "",
          acc |-> [acc EXCEPT !.available = @ - amount,
                              !.version = (@ + 1) % U16]]

\* withdraw that refuses to empty the available balance
Account_withdraw_rejecting_exact(acc, amount) ==
    IF ~is_positive(amount) THEN [err |-> "AmountIsNotPositive", acc |-> acc]
    ELSE IF acc.locked THEN [err |-> "AccountLocked", acc |-> acc]
    ELSE IF amount >= acc.available THEN [err |-> "InsufficientFunds", acc |-> acc]
    ELSE [err |-> "",
          acc |-> [acc EXCEPT !.available = @ - amount,
                              !.version = (@ + 1) % U16]]

\* withdraw that tests the funds before the lock
Account_withdraw_funds_first(acc, amount) ==
    IF ~is_positive(amount) THEN [err |-> "AmountIsNotPositive", acc |-> acc]
    ELSE IF amount > acc.available THEN [err |-> "InsufficientFunds", acc |-> acc]
    ELSE IF acc.locked THEN [err |-> "AccountLocked", acc |-> acc]
    ELSE [err |-> "",
          acc |-> [acc EXCEPT !.available = @ - amount,
                              !.version = (@ + 1) % U16]]

Account_withdraw(acc, amount) ==
    IF ~is_positive(amount) THEN [err |-> "AmountIsNotPositive", acc |-> acc]
    ELSE IF acc.locked THEN [err |-> "AccountLocked", acc |-> acc]
    ELSE IF amount > acc.available THEN [err |-> "InsufficientFunds", acc |-> acc]
    ELSE IF version_overflows(acc.version) THEN [err |-> "panic", acc |-> acc]
    ELSE [err |-> "",
          acc |-> [acc EXCEPT !.available = @ - amount,
                              !.version = (@ + 1) % U16]]

\* dispute that takes the amount out of available without holding it
Account_dispute_without_hold(acc, amount) ==
    IF ~is_positive(amount) THEN [err |-> "AmountIsNotPositive", acc |-> acc]
    ELSE [err |-> "",
          acc |-> [acc EXCEPT !.available = @ - amount,
                              !.version = (@ + 1) % U16]]

\* dispute that lifts the lock of the account
Account_dispute_unlocking(acc, amount) ==
    IF ~is_positive(amount) THEN [err |-> "AmountIsNotPositive", acc |-> acc]
    ELSE [err |-> "",
          acc |-> [acc EXCEPT !.available = @ - amount,
                              !.held = @ + amount,
                              !.locked = FALSE,
                              !.version = (@ + 1) % U16]]

Account_dispute(acc, amount) ==
    IF ~is_positive(amount) THEN [err |-> "AmountIsNotPositive", acc |-> acc]
    ELSE IF version_overflows(acc.version) THEN [err |-> "panic", acc |-> acc]
    ELSE [err |-> "",
          acc |-> [acc EXCEPT !.available = @ - amount,
                              !.held = @ + amount,
                              !.version = (@ + 1) % U16]]

Account_resolve(acc, amount) ==
    IF ~is_positive(amount) THEN [err |-> "AmountIsNotPositive", acc |-> acc]
    ELSE IF version_overflows(acc.version) THEN [err |-> "panic", acc |-> acc]
    ELSE [err |-> "",
          acc |-> [acc EXCEPT !.held = @ - amount,
                              !.available = @ + amount,
                              !.version = (@ + 1) % U16]]

\* chargeback that takes the held funds but leaves the account unlocked
Account_chargeback_without_lock(acc, amount) ==
    IF ~is_positive(amount) THEN [err |-> "AmountIsNotPositive", acc |-> acc]
    ELSE [err |-> "",
          acc |-> [acc EXCEPT !.held = @ - amount,
                              !.version = (@ + 1) % U16]]

Account_chargeback(acc, amount) ==
    IF ~is_positive(amount) THEN [err |-> "AmountIsNotPositive", acc |-> acc]
    ELSE IF version_overflows(acc.version) THEN [err |-> "panic", acc |-> acc]
    ELSE [err |-> "",
          acc |-> [acc EXCEPT !.held = @ - amount,
                              !.locked = TRUE,
                              !.version = (@ + 1) % U16]]

\* ------------------------------------------------------------------------
\* Transaction
\* ------------------------------------------------------------------------
TransactionState == {"Posted", "Disputed", "Resolved", "Chargeback"}

Transaction_new(id, account_id, tx_type, amount) ==
    [id |-> id, account_id |-> account_id, tx_type |-> tx_type, amount |-> amount,
     state |-> "Posted", version |-> 0]

\* set_state that lets a charged-back transaction be disputed again
set_state_reopening_chargeback(tx, new_state) ==
    IF tx.state = new_state THEN [res |-> Ok, tx |-> tx]
    ELSE IF tx.tx_type = "Withdrawal" THEN [res |-> Err("InvalidTxType"), tx |-> tx]
    ELSE IF \/ (tx.state = "Posted" /\ new_state = "Disputed")
            \/ (tx.state = "Disputed" /\ new_state = "Resolved")
            \/ (tx.state = "Disputed" /\ new_state = "Chargeback")
            \/ (tx.state = "Chargeback" /\ new_state = "Disputed")
         THEN [res |-> Ok,
               tx |-> [tx EXCEPT !.state = new_state, !.version = (@ + 1) % U16]]
         ELSE [res |-> ForbiddenTxStateTransition(tx.state, new_state), tx |-> tx]

\* returns [res, tx]: res is Ok or the TxUpdateError as an engine result
\* (impl From<TxUpdateError> for EngineError keeps the variant), tx is the
\* receiver after the call
set_state(tx, new_state) ==
    IF tx.state = new_state THEN [res |-> Ok, tx |-> tx]
    ELSE IF tx.tx_type = "Withdrawal" THEN [res |-> Err("InvalidTxType"), tx |-> tx]
    ELSE IF \/ (tx.state = "Posted" /\ new_state = "Disputed")
            \/ (tx.state = "Disputed" /\ new_state = "Resolved")
            \/ (tx.state = "Disputed" /\ new_state = "Chargeback")
         THEN [res |-> Ok,
               tx |-> [tx EXCEPT !.state = new_state, !.version = (@ + 1) % U16]]
         ELSE [res |-> ForbiddenTxStateTransition(tx.state, new_state), tx |-> tx]

\* ------------------------------------------------------------------------
\* Storage (EchoDbStorage).  The database is three keyspaces: acc:<id>,
\* tx:<id> and op:<hash>.  A DbTx is a private copy of the database taken
\* by start_db_tx; commit_db_tx publishes the copy and a DbTx that is
\* dropped without commit publishes nothing.  Storage calls return
\* [err, db_tx] with err = "" on success.
\* ------------------------------------------------------------------------
EmptyDb == [acc |-> <<>>, tx |-> <<>>, op |-> {}]

start_db_tx(db) == db

commit_db_tx(db, db_tx) == db_tx

get_tx(db_tx, tx_id) ==
    IF tx_id \in DOMAIN db_tx.tx THEN {db_tx.tx[tx_id]} ELSE {}

\* db_tx.put: fails with KeyAlreadyExists (EntityAlreadyExists) on an existing key
insert_tx(db_tx, tx) ==
    IF tx.id \in DOMAIN db_tx.tx
    THEN [err |-> "EntityAlreadyExists", db_tx |-> db_tx]
    ELSE [err |-> "", db_tx |-> [db_tx EXCEPT !.tx = (tx.id :> tx) @@ @]]

\* an update that deletes the transaction it should replace
update_tx_deleting(db_tx, old_tx, new_tx) ==
    IF get_tx(db_tx, old_tx.id) = {old_tx}
    THEN [err |-> "",
          db_tx |-> [db_tx EXCEPT !.tx = [t \in DOMAIN @ \ {old_tx.id} |-> @[t]]]]
    ELSE [err |-> "ConcurrentModification", db_tx |-> db_tx]

\* db_tx.putc: writes only if the stored value equals the expected one,
\* otherwise ValNotExpectedValue (ConcurrentModification)
update_tx(db_tx, old_tx, new_tx) ==
    IF get_tx(db_tx, old_tx.id) = {old_tx}
    THEN [err |-> "", db_tx |-> [db_tx EXCEPT !.tx = (old_tx.id :> new_tx) @@ @]]
    ELSE [err |-> "ConcurrentModification", db_tx |-> db_tx]

\* an insert of an account that reports success and writes nothing
insert_account_forgetting(db_tx, acc) ==
    IF acc.id \in DOMAIN db_tx.acc
    THEN [err |-> "EntityAlreadyExists", db_tx |-> db_tx]
    ELSE [err |-> "", db_tx |-> db_tx]

\* an update of an account that writes whatever is stored
update_account_unchecked(db_tx, old_acc, new_acc) ==
    [err |-> "", db_tx |-> [db_tx EXCEPT !.acc = (old_acc.id :> new_acc) @@ @]]

get_account(db_tx, acc_id) ==
    IF acc_id \in DOMAIN db_tx.acc THEN {db_tx.acc[acc_id]} ELSE {}

insert_account(db_tx, acc) ==
    IF acc.id \in DOMAIN db_tx.acc
    THEN [err |-> "EntityAlreadyExists", db_tx |-> db_tx]
    ELSE [err |-> "", db_tx |-> [db_tx EXCEPT !.acc = (acc.id :> acc) @@ @]]

update_account(db_tx, old_acc, new_acc) ==
    IF get_account(db_tx, old_acc.id) = {old_acc}
    THEN [err |-> "", db_tx |-> [db_tx EXCEPT !.acc = (old_acc.id :> new_acc) @@ @]]
    ELSE [err |-> "ConcurrentModification", db_tx |-> db_tx]

\* an insert into the log that reports success and records nothing
insert_operation_forgetting(db_tx, op_hash) ==
    IF op_hash \in db_tx.op
    THEN [err |-> "EntityAlreadyExists", db_tx |-> db_tx]
    ELSE [err |-> "", db_tx |-> db_tx]

is_operation_processed(db_tx, op_hash) == op_hash \in db_tx.op

insert_operation(db_tx, op_hash) ==
    IF op_hash \in db_tx.op
    THEN [err |-> "EntityAlreadyExists", db_tx |-> db_tx]
    ELSE [err |-> "", db_tx |-> [db_tx EXCEPT !.op = @ \cup {op_hash}]]

\* ------------------------------------------------------------------------
\* Operation and its fingerprint
\* ------------------------------------------------------------------------
OpKinds == {"Deposit", "Withdraw", "Dispute", "Resolve", "Chargeback"}

\* Dispute, Resolve and Chargeback carry no amount: their amount field is 0
Operation(kind, acc_id, tx_id, amount) ==
    [kind |-> kind, acc_id |-> acc_id, tx_id |-> tx_id, amount |-> amount]

op_str(kind) ==
    CASE kind = "Deposit" -> "deposit"
      [] kind = "Withdraw" -> "withdraw"
      [] kind = "Dispute" -> "dispute"
      [] kind = "Resolve" -> "resolve"
      [] kind = "Chargeback" -> "chargeback"

\* a fingerprint that also feeds the amount to the hasher
get_hash_code_with_amount(operation) ==
    <<op_str(operation.kind), operation.acc_id, operation.tx_id, operation.amount>>

\* a fingerprint that leaves the kind of the operation out
get_hash_code_without_kind(operation) ==
    <<"", operation.acc_id, operation.tx_id>>

\* The 64-bit hash of (op_str, acc_id, tx_id) is kept as the triple itself
\* (the hasher is taken to be collision free on the modelled ids).
get_hash_code(operation) ==
    <<op_str(operation.kind), operation.acc_id, operation.tx_id>>

\* ------------------------------------------------------------------------
\* Engine.  Every operation returns [result, storage, db_tx, opened,
\* committed]: its Result, the committed database after the call, the DbTx as
\* the call left it, whether the call opened a DbTx and whether it committed
\* it.  A panic of an Account method
\* unwinds through the operation like an early return: the DbTx is dropped.
\* ------------------------------------------------------------------------

\* an early return that publishes the writes made so far
early_return_publishing(db, db_tx, result) ==
    [result |-> result, storage |-> db_tx, db_tx |-> db_tx, opened |-> TRUE,
     committed |-> TRUE]

\* `return Err(..)` / `return Ok(())` / `?` before commit_db_tx: the DbTx is
\* dropped and none of its writes reach the database
early_return(db, db_tx, result) ==
    [result |-> result, storage |-> db, db_tx |-> db_tx, opened |-> TRUE,
     committed |-> FALSE]

\* a return before start_db_tx: no DbTx was opened
early_return_without_db_tx(db, result) ==
    [result |-> result, storage |-> db, db_tx |-> db, opened |-> FALSE,
     committed |-> FALSE]

\* commit_db_tx(db_tx) followed by Ok(())
commit_and_return(db, db_tx) ==
    [result |-> Ok, storage |-> commit_db_tx(db, db_tx), db_tx |-> db_tx, opened |-> TRUE,
     committed |-> TRUE]

\* deposit that consults the processed-operation log before it tests the amount
deposit_replay_first(db, acc_id, tx_id, amount) ==
    LET db_tx == start_db_tx(db)
        op_hash == get_hash_code(Operation("Deposit", acc_id, tx_id, amount))
    IN
    IF is_operation_processed(db_tx, op_hash) THEN early_return(db, db_tx, Ok)
    ELSE IF ~is_positive(amount) THEN early_return(db, db_tx, Err("AmountIsNotPositive"))
    ELSE IF get_tx(db_tx, tx_id) # {}
    THEN early_return(db, db_tx, Err("TransactionWithTheSameIdAlreadyExists"))
    ELSE
    LET tx == Transaction_new(tx_id, acc_id, "Deposit", amount)
        w1 == insert_tx(db_tx, tx)
    IN
    IF w1.err # "" THEN early_return(db, w1.db_tx, FromDbError(w1.err))
    ELSE
    LET maybe_account == get_account(w1.db_tx, acc_id)
        old_acc == IF maybe_account # {} THEN CHOOSE a \in maybe_account : TRUE
                   ELSE Account_new(acc_id)
        m == Account_deposit(old_acc, amount)
    IN
    IF m.err # "" THEN early_return(db, w1.db_tx, Err(m.err))
    ELSE
    LET w2 == IF maybe_account # {}
              THEN update_account(w1.db_tx, old_acc, m.acc)
              ELSE insert_account(w1.db_tx, m.acc)
    IN
    IF w2.err # "" THEN early_return(db, w2.db_tx, FromDbError(w2.err))
    ELSE
    LET w3 == insert_operation(w2.db_tx, op_hash)
    IN
    IF w3.err # "" THEN early_return(db, w3.db_tx, FromDbError(w3.err))
    ELSE commit_and_return(db, w3.db_tx)

\* deposit that inserts the transaction without looking its id up first
deposit_without_tx_lookup(db, acc_id, tx_id, amount) ==
    IF ~is_positive(amount) THEN early_return_without_db_tx(db, Err("AmountIsNotPositive"))
    ELSE
    LET db_tx == start_db_tx(db)
        op_hash == get_hash_code(Operation("Deposit", acc_id, tx_id, amount))
    IN
    IF is_operation_processed(db_tx, op_hash) THEN early_return(db, db_tx, Ok)
    ELSE
    LET tx == Transaction_new(tx_id, acc_id, "Deposit", amount)
        w1 == insert_tx(db_tx, tx)
    IN
    IF w1.err # "" THEN early_return(db, w1.db_tx, FromDbError(w1.err))
    ELSE
    LET maybe_account == get_account(w1.db_tx, acc_id)
        old_acc == IF maybe_account # {} THEN CHOOSE a \in maybe_account : TRUE
                   ELSE Account_new(acc_id)
        m == Account_deposit(old_acc, amount)
    IN
    IF m.err # "" THEN early_return(db, w1.db_tx, Err(m.err))
    ELSE
    LET w2 == IF maybe_account # {}
              THEN update_account(w1.db_tx, old_acc, m.acc)
              ELSE insert_account(w1.db_tx, m.acc)
    IN
    IF w2.err # "" THEN early_return(db, w2.db_tx, FromDbError(w2.err))
    ELSE
    LET w3 == insert_operation(w2.db_tx, op_hash)
    IN
    IF w3.err # "" THEN early_return(db, w3.db_tx, FromDbError(w3.err))
    ELSE commit_and_return(db, w3.db_tx)

deposit(db, acc_id, tx_id, amount) ==
    IF ~is_positive(amount) THEN early_return_without_db_tx(db, Err("AmountIsNotPositive"))
    ELSE
    LET db_tx == start_db_tx(db)
        op_hash == get_hash_code(Operation("Deposit", acc_id, tx_id, amount))
    IN
    IF is_operation_processed(db_tx, op_hash) THEN early_return(db, db_tx, Ok)
    ELSE IF get_tx(db_tx, tx_id) # {}
    THEN early_return(db, db_tx, Err("TransactionWithTheSameIdAlreadyExists"))
    ELSE
    LET tx == Transaction_new(tx_id, acc_id, "Deposit", amount)
        w1 == insert_tx(db_tx, tx)
    IN
    IF w1.err # "" THEN early_return(db, w1.db_tx, FromDbError(w1.err))
    ELSE
    LET maybe_account == get_account(w1.db_tx, acc_id)
        old_acc == IF maybe_account # {} THEN CHOOSE a \in maybe_account : TRUE
                   ELSE Account_new(acc_id)
        m == Account_deposit(old_acc, amount)
    IN
    IF m.err # "" THEN early_return(db, w1.db_tx, Err(m.err))
    ELSE
    LET w2 == IF maybe_account # {}
              THEN update_account(w1.db_tx, old_acc, m.acc)
              ELSE insert_account(w1.db_tx, m.acc)
    IN
    IF w2.err # "" THEN early_return(db, w2.db_tx, FromDbError(w2.err))
    ELSE
    LET w3 == insert_operation(w2.db_tx, op_hash)
    IN
    IF w3.err # "" THEN early_return(db, w3.db_tx, FromDbError(w3.err))
    ELSE commit_and_return(db, w3.db_tx)

withdraw(db, acc_id, tx_id, amount) ==
    IF ~is_positive(amount) THEN early_return_without_db_tx(db, Err("AmountIsNotPositive"))
    ELSE
    LET db_tx == start_db_tx(db)
        op_hash == get_hash_code(Operation("Withdraw", acc_id, tx_id, amount))
    IN
    IF is_operation_processed(db_tx, op_hash) THEN early_return(db, db_tx, Ok)
    ELSE IF get_tx(db_tx, tx_id) # {}
    THEN early_return(db, db_tx, Err("TransactionWithTheSameIdAlreadyExists"))
    ELSE
    LET maybe_account == get_account(db_tx, acc_id)
    IN
    IF maybe_account = {} THEN early_return(db, db_tx, Err("AccountNotFound"))
    ELSE
    LET old_acc == CHOOSE a \in maybe_account : TRUE
        m == Account_withdraw(old_acc, amount)
    IN
    IF m.err # "" THEN early_return(db, db_tx, Err(m.err))
    ELSE
    LET tx == Transaction_new(tx_id, acc_id, "Withdrawal", amount)
        w1 == insert_tx(db_tx, tx)
    IN
    IF w1.err # "" THEN early_return(db, w1.db_tx, FromDbError(w1.err))
    ELSE
    LET w2 == update_account(w1.db_tx, old_acc, m.acc)
    IN
    IF w2.err # "" THEN early_return(db, w2.db_tx, FromDbError(w2.err))
    ELSE
    LET w3 == insert_operation(w2.db_tx, op_hash)
    IN
    IF w3.err # "" THEN early_return(db, w3.db_tx, FromDbError(w3.err))
    ELSE commit_and_return(db, w3.db_tx)

\* dispute, resolve and chargeback share one shape; they differ in the target
\* state handed to set_state and in the Account method applied
dispute(db, acc_id, tx_id) ==
    LET db_tx == start_db_tx(db)
        maybe_tx == get_tx(db_tx, tx_id)
    IN
    IF maybe_tx = {} THEN early_return(db, db_tx, Err("TransactionNotFound"))
    ELSE
    LET old_tx == CHOOSE t \in maybe_tx : TRUE
    IN
    IF old_tx.account_id # acc_id
    THEN early_return(db, db_tx, TransactionIsBoundToAnotherAccount(old_tx.account_id))
    ELSE
    LET maybe_account == get_account(db_tx, acc_id)
    IN
    IF maybe_account = {} THEN early_return(db, db_tx, Err("AccountNotFound"))
    ELSE
    LET old_acc == CHOOSE a \in maybe_account : TRUE
        s == set_state(old_tx, "Disputed")
    IN
    IF s.res # Ok THEN early_return(db, db_tx, s.res)
    ELSE
    LET m == Account_dispute(old_acc, s.tx.amount)
    IN
    IF m.err # "" THEN early_return(db, db_tx, Err(m.err))
    ELSE
    LET w1 == update_tx(db_tx, old_tx, s.tx)
    IN
    IF w1.err # "" THEN early_return(db, w1.db_tx, FromDbError(w1.err))
    ELSE
    LET w2 == update_account(w1.db_tx, old_acc, m.acc)
    IN
    IF w2.err # "" THEN early_return(db, w2.db_tx, FromDbError(w2.err))
    ELSE commit_and_return(db, w2.db_tx)

\* resolve that looks the account up before it compares the owner
resolve_account_first(db, acc_id, tx_id) ==
    LET db_tx == start_db_tx(db)
        maybe_tx == get_tx(db_tx, tx_id)
    IN
    IF maybe_tx = {} THEN early_return(db, db_tx, Err("TransactionNotFound"))
    ELSE
    LET old_tx == CHOOSE t \in maybe_tx : TRUE
        maybe_account == get_account(db_tx, acc_id)
    IN
    IF maybe_account = {} THEN early_return(db, db_tx, Err("AccountNotFound"))
    ELSE IF old_tx.account_id # acc_id
    THEN early_return(db, db_tx, TransactionIsBoundToAnotherAccount(old_tx.account_id))
    ELSE
    LET old_acc == CHOOSE a \in maybe_account : TRUE
        s == set_state(old_tx, "Posted")
    IN
    IF s.res # Ok THEN early_return(db, db_tx, s.res)
    ELSE
    LET m == Account_resolve(old_acc, s.tx.amount)
    IN
    IF m.err # "" THEN early_return(db, db_tx, Err(m.err))
    ELSE
    LET w1 == update_tx(db_tx, old_tx, s.tx)
    IN
    IF w1.err # "" THEN early_return(db, w1.db_tx, FromDbError(w1.err))
    ELSE
    LET w2 == update_account(w1.db_tx, old_acc, m.acc)
    IN
    IF w2.err # "" THEN early_return(db, w2.db_tx, FromDbError(w2.err))
    ELSE commit_and_return(db, w2.db_tx)

resolve(db, acc_id, tx_id) ==
    LET db_tx == start_db_tx(db)
        maybe_tx == get_tx(db_tx, tx_id)
    IN
    IF maybe_tx = {} THEN early_return(db, db_tx, Err("TransactionNotFound"))
    ELSE
    LET old_tx == CHOOSE t \in maybe_tx : TRUE
    IN
    IF old_tx.account_id # acc_id
    THEN early_return(db, db_tx, TransactionIsBoundToAnotherAccount(old_tx.account_id))
    ELSE
    LET maybe_account == get_account(db_tx, acc_id)
    IN
    IF maybe_account = {} THEN early_return(db, db_tx, Err("AccountNotFound"))
    ELSE
    LET old_acc == CHOOSE a \in maybe_account : TRUE
        s == set_state(old_tx, "Posted")
    IN
    IF s.res # Ok THEN early_return(db, db_tx, s.res)
    ELSE
    LET m == Account_resolve(old_acc, s.tx.amount)
    IN
    IF m.err # "" THEN early_return(db, db_tx, Err(m.err))
    ELSE
    LET w1 == update_tx(db_tx, old_tx, s.tx)
    IN
    IF w1.err # "" THEN early_return(db, w1.db_tx, FromDbError(w1.err))
    ELSE
    LET w2 == update_account(w1.db_tx, old_acc, m.acc)
    IN
    IF w2.err # "" THEN early_return(db, w2.db_tx, FromDbError(w2.err))
    ELSE commit_and_return(db, w2.db_tx)

chargeback(db, acc_id, tx_id) ==
    LET db_tx == start_db_tx(db)
        maybe_tx == get_tx(db_tx, tx_id)
    IN
    IF maybe_tx = {} THEN early_return(db, db_tx, Err("TransactionNotFound"))
    ELSE
    LET old_tx == CHOOSE t \in maybe_tx : TRUE
    IN
    IF old_tx.account_id # acc_id
    THEN early_return(db, db_tx, TransactionIsBoundToAnotherAccount(old_tx.account_id))
    ELSE
    LET maybe_account == get_account(db_tx, acc_id)
    IN
    IF maybe_account = {} THEN early_return(db, db_tx, Err("AccountNotFound"))
    ELSE
    LET old_acc == CHOOSE a \in maybe_account : TRUE
        s == set_state(old_tx, "Chargeback")
    IN
    IF s.res # Ok THEN early_return(db, db_tx, s.res)
    ELSE
    LET m == Account_chargeback(old_acc, s.tx.amount)
    IN
    IF m.err # "" THEN early_return(db, db_tx, Err(m.err))
    ELSE
    LET w1 == update_tx(db_tx, old_tx, s.tx)
    IN
    IF w1.err # "" THEN early_return(db, w1.db_tx, FromDbError(w1.err))
    ELSE
    LET w2 == update_account(w1.db_tx, old_acc, m.acc)
    IN
    IF w2.err # "" THEN early_return(db, w2.db_tx, FromDbError(w2.err))
    ELSE commit_and_return(db, w2.db_tx)

\* Engine::execute_operation
execute_operation(db, operation) ==
    CASE operation.kind = "Deposit" ->
            deposit(db, operation.acc_id, operation.tx_id, operation.amount)
      [] operation.kind = "Withdraw" ->
            withdraw(db, operation.acc_id, operation.tx_id, operation.amount)
      [] operation.kind = "Dispute" -> dispute(db, operation.acc_id, operation.tx_id)
      [] operation.kind = "Resolve" -> resolve(db, operation.acc_id, operation.tx_id)
      [] operation.kind = "Chargeback" -> chargeback(db, operation.acc_id, operation.tx_id)

\* ------------------------------------------------------------------------
\* State: one engine driven sequentially over its storage (main.rs read_csv).
\* The driver calls execute_operation, looks at the result and goes on to the
\* next row.
\* ------------------------------------------------------------------------
VARIABLES
    storage,        \* the committed database of the engine's storage
    lastOp,         \* the operation whose result the driver holds (NoOp: none)
    lastResult,     \* that result
    prevStorage,    \* history: the committed database before lastOp was executed
    seed,           \* the database the run started from (fixed by Init)
    recording,      \* whether the two histories below are kept (fixed by Init)
    lastCommit,     \* history: the last operation that changed the committed
                    \* database, and the database before it
    scenario,       \* history: how many of the latest operations form a prefix of
                    \* deposit, dispute, resolve, dispute, chargeback of one
                    \* transaction that started on a fresh account
    engines         \* the calls in flight of the engines that share the storage
                    \* (NoEngines: the one engine of the sequential driver)

vars == <<storage, lastOp, lastResult, prevStorage, seed, recording, lastCommit, scenario,
          engines, overflow_checks>>

NoOp == Operation("None", 0, 0, 0)

NoCommit == [op |-> NoOp, from |-> EmptyDb]

NoScenario == [step |-> 0, acc_id |-> 0, tx_id |-> 0]

NoEngines == <<>>

\* no version comes near 65535 within MaxCommits commits of an empty database,
\* so the two builds behave alike here
Fresh ==
    /\ overflow_checks = FALSE
    /\ engines = NoEngines
    /\ storage = EmptyDb
    /\ seed = EmptyDb
    /\ lastOp = NoOp
    /\ lastResult = Ok
    /\ prevStorage = EmptyDb
    /\ lastCommit = NoCommit
    /\ scenario = NoScenario

Init == Fresh /\ recording = FALSE

\* the same engine, with the histories of the sequence of operations kept
HistInit == Fresh /\ recording = TRUE

\* the number of committed changes of db: every commit of an operation
\* increments the version of exactly one account
RECURSIVE SumVersions(_, _)
SumVersions(db, ids) ==
    IF ids = {} THEN 0
    ELSE LET a == CHOOSE x \in ids : TRUE
         IN db.acc[a].version + SumVersions(db, ids \ {a})

Commits(db) == SumVersions(db, DOMAIN db.acc)

\* the number of changes committed since the start of the run (the versions
\* are counters modulo 2^16)
CommitsSinceSeed == (Commits(storage) - Commits(seed)) % U16

\* the kinds of the five steps of the re-dispute scenario
ScenarioKinds == <<"Deposit", "Dispute", "Resolve", "Dispute", "Chargeback">>

\* the scenario counter after `operation` is executed on database db
ScenarioAfter(db, operation) ==
    IF /\ operation.kind = "Deposit"
       /\ is_positive(operation.amount)
       /\ operation.acc_id \notin DOMAIN db.acc
       /\ operation.tx_id \notin DOMAIN db.tx
    THEN [step |-> 1, acc_id |-> operation.acc_id, tx_id |-> operation.tx_id]
    ELSE IF /\ scenario.step \in 1..4
            /\ operation.kind = ScenarioKinds[scenario.step + 1]
            /\ operation.acc_id = scenario.acc_id
            /\ operation.tx_id = scenario.tx_id
         THEN [scenario EXCEPT !.step = @ + 1]
         ELSE NoScenario

\* one call of Engine::execute_operation by the driver; an operation that
\* changes the database is issued only while fewer than MaxCommits changes
\* have been committed since the start of the run
Execute(operation) ==
    LET r == execute_operation(storage, operation)
    IN /\ lastOp = NoOp
       /\ r.storage = storage \/ CommitsSinceSeed < MaxCommits
       /\ storage' = r.storage
       /\ lastResult' = r.result
       /\ lastOp' = operation
       /\ prevStorage' = storage
       /\ lastCommit' = IF recording /\ r.storage # storage
                        THEN [op |-> operation, from |-> storage]
                        ELSE lastCommit
       /\ scenario' = IF recording THEN ScenarioAfter(storage, operation) ELSE scenario
       /\ UNCHANGED <<seed, recording, engines, overflow_checks>>

Deposit ==
    \E acc_id \in AccIds, tx_id \in TxIds, amount \in Amounts :
        /\ lastOp = NoOp
        /\ Execute(Operation("Deposit", acc_id, tx_id, amount))

Withdraw ==
    \E acc_id \in AccIds, tx_id \in TxIds, amount \in Amounts :
        /\ lastOp = NoOp
        /\ Execute(Operation("Withdraw", acc_id, tx_id, amount))

Dispute ==
    \E acc_id \in AccIds, tx_id \in TxIds :
        /\ lastOp = NoOp
        /\ Execute(Operation("Dispute", acc_id, tx_id, 0))

Resolve ==
    \E acc_id \in AccIds, tx_id \in TxIds :
        /\ lastOp = NoOp
        /\ Execute(Operation("Resolve", acc_id, tx_id, 0))

Chargeback ==
    \E acc_id \in AccIds, tx_id \in TxIds :
        /\ lastOp = NoOp
        /\ Execute(Operation("Chargeback", acc_id, tx_id, 0))

\* the driver drops the result, whether Ok or an error, and goes on; a panic
\* ends the process
Continue ==
    /\ lastOp # NoOp
    /\ lastResult.tag # "panic"
    /\ lastOp' = NoOp
    /\ lastResult' = Ok
    /\ prevStorage' = storage
    /\ UNCHANGED <<storage, seed, recording, lastCommit, scenario, engines, overflow_checks>>

Next == Deposit \/ Withdraw \/ Dispute \/ Resolve \/ Chargeback \/ Continue

Spec == Init /\ [][Next]_vars

HistSpec == HistInit /\ [][Next]_vars

\* the database after deposit(1, 1, 1); deposit(1, 2, 1): one account with
\* two Posted deposits
TwoDeposits ==
    deposit(deposit(EmptyDb, 1, 1, 1).storage, 1, 2, 1).storage

\* the same engine, picked up after those two deposits
TwoDepositsInit ==
    /\ overflow_checks = FALSE
    /\ engines = NoEngines
    /\ storage = TwoDeposits
    /\ seed = TwoDeposits
    /\ lastOp = NoOp
    /\ lastResult = Ok
    /\ prevStorage = TwoDeposits
    /\ recording = FALSE
    /\ lastCommit = NoCommit
    /\ scenario = NoScenario

TwoDepositsSpec == TwoDepositsInit /\ [][Next]_vars

\* two transaction ids that the driver used before the run that is modelled
SeedTx1 == MaxTx + 1

SeedTx2 == MaxTx + 2

\* an account whose version nears 65535: the database after
\* deposit(1, SeedTx1, 1); deposit(1, SeedTx2, 1); dispute(1, SeedTx1) and 32765
\* rounds of resolve(1, SeedTx2); dispute(1, SeedTx1), every one of which
\* commits, the two of a round cancelling each other in the balances
WrapRoundStart ==
    LET d1 == deposit(EmptyDb, 1, SeedTx1, 1).storage
        d2 == deposit(d1, 1, SeedTx2, 1).storage
        d3 == dispute(d2, 1, SeedTx1).storage
    IN [d3 EXCEPT !.acc[1].version = U16 - 3]

\* one more resolve(1, SeedTx2): version 65534
WrapBefore == resolve(WrapRoundStart, 1, SeedTx2).storage

\* one more dispute(1, SeedTx1): version 65535
WrapSeed == dispute(WrapBefore, 1, SeedTx1).storage

\* the same engine, picked up at that database, in either build; the commits
\* are counted from the last operation of the last round
WrapInit ==
    /\ overflow_checks \in BOOLEAN
    /\ engines = NoEngines
    /\ storage = WrapSeed
    /\ seed = WrapBefore
    /\ lastOp = NoOp
    /\ lastResult = Ok
    /\ prevStorage = WrapSeed
    /\ recording = FALSE
    /\ lastCommit = NoCommit
    /\ scenario = NoScenario

WrapSpec == WrapInit /\ [][Next]_vars

TypeOK ==
    /\ DOMAIN storage.acc \subseteq AccIds
    /\ DOMAIN storage.tx \subseteq TxIds \cup DOMAIN seed.tx
    /\ CommitsSinceSeed <= MaxCommits
    /\ \A a \in DOMAIN storage.acc : storage.acc[a].id = a
    /\ \A t \in DOMAIN storage.tx :
          /\ storage.tx[t].id = t
          /\ storage.tx[t].state \in TransactionState

\* ------------------------------------------------------------------------
\* Transaction::set_state on its own, as the unit tests of transaction.rs
\* drive it: a new Transaction, then any sequence of set_state calls.
\* storage holds the one transaction under test.
\* ------------------------------------------------------------------------
TxTypes == {"Deposit", "Withdrawal"}

TxInit ==
    /\ overflow_checks = FALSE
    /\ engines = NoEngines
    /\ \E id \in TxIds, account_id \in AccIds, tx_type \in TxTypes, amount \in 1..MaxAmount :
          storage = [EmptyDb EXCEPT
                        !.tx = (id :> Transaction_new(id, account_id, tx_type, amount))]
    /\ lastOp = NoOp
    /\ lastResult = Ok
    /\ prevStorage = EmptyDb
    /\ seed = storage
    /\ recording = FALSE
    /\ lastCommit = NoCommit
    /\ scenario = NoScenario

SetState ==
    \E id \in DOMAIN storage.tx, new_state \in TransactionState :
        LET r == set_state(storage.tx[id], new_state)
        IN /\ storage' = [storage EXCEPT !.tx = (id :> r.tx) @@ @]
           /\ lastResult' = r.res
           /\ lastOp' = [kind |-> "set_state", acc_id |-> storage.tx[id].account_id,
                         tx_id |-> id, amount |-> 0, new_state |-> new_state]
           /\ prevStorage' = storage
           /\ UNCHANGED <<seed, recording, lastCommit, scenario, engines, overflow_checks>>

TxNext == SetState

TxSpec == TxInit /\ [][TxNext]_vars

\* ------------------------------------------------------------------------
\* Several engines over one storage.  Each engine runs one call at a time.
\* start_db_tx is echodb's Db::begin(true), a write transaction: echodb admits
\* one write transaction at a time, so the call waits until the open one is
\* committed or dropped.  The DbTx works on the copy of the database taken
\* when it begins and commit_db_tx replaces the database by that copy.
\* Between start_db_tx and the commit or return the operation touches the DbTx
\* only, so those calls are one step.
\* ------------------------------------------------------------------------
Engines == {1, 2}

\* an engine that has not been called yet
Idle ==
    [pc |-> "idle", op |-> NoOp, db_tx |-> EmptyDb, result |-> Ok, committed |-> FALSE,
     waited |-> FALSE]

SharedInit ==
    /\ overflow_checks = FALSE
    /\ engines = [e \in Engines |-> Idle]
    /\ storage = EmptyDb
    /\ seed = EmptyDb
    /\ lastOp = NoOp
    /\ lastResult = Ok
    /\ prevStorage = EmptyDb
    /\ recording = FALSE
    /\ lastCommit = NoCommit
    /\ scenario = NoScenario

\* a write transaction that begins whatever the other engines hold
can_begin_unlocked(es, e) == TRUE

\* Db::begin(true): no other engine holds an open DbTx
can_begin(es, e) == \A other \in Engines \ {e} : es[other].pc # "open"

\* the calls that have been made and have not yet committed or returned
InFlight == Cardinality({e \in Engines : engines[e].pc \in {"called", "open"}})

\* the engines work on one account, with every transaction id and the
\* smallest amount
SharedAccounts == {1}

SharedAmounts == {1}

SharedOperations ==
    {Operation(kind, acc_id, tx_id, amount) :
        kind \in {"Deposit", "Withdraw"}, acc_id \in SharedAccounts, tx_id \in TxIds,
        amount \in SharedAmounts}
    \cup {Operation(kind, acc_id, tx_id, 0) :
        kind \in {"Dispute", "Resolve", "Chargeback"}, acc_id \in SharedAccounts,
        tx_id \in TxIds}

\* engine e is called with an operation; `waited` records that another engine
\* held its DbTx open at that moment
SharedCall(e) ==
    /\ engines[e].pc \in {"idle", "returned"}
    /\ CommitsSinceSeed + InFlight < MaxCommits
    /\ \E operation \in SharedOperations :
          engines' = [engines EXCEPT ![e] =
                         [Idle EXCEPT !.pc = "called", !.op = operation,
                                      !.waited = ~can_begin(engines, e)]]
    /\ UNCHANGED <<storage, lastOp, lastResult, prevStorage, seed, recording, lastCommit,
                   scenario, overflow_checks>>

\* the call runs up to its commit_db_tx or to the return that drops the DbTx;
\* a call that is rejected before start_db_tx returns at once
SharedStart(e) ==
    LET r == execute_operation(storage, engines[e].op)
    IN /\ engines[e].pc = "called"
       /\ r.opened => can_begin(engines, e)
       /\ engines' = [engines EXCEPT ![e].pc = IF r.opened THEN "open" ELSE "returned",
                                     ![e].db_tx = IF r.opened THEN r.db_tx ELSE EmptyDb,
                                     ![e].result = r.result,
                                     ![e].committed = r.committed]
       /\ UNCHANGED <<storage, lastOp, lastResult, prevStorage, seed, recording,
                      lastCommit, scenario, overflow_checks>>

\* commit_db_tx, or the drop of the DbTx, and the return to the caller
SharedEnd(e) ==
    /\ engines[e].pc = "open"
    /\ storage' = IF engines[e].committed
                  THEN commit_db_tx(storage, engines[e].db_tx)
                  ELSE storage
    /\ engines' = [engines EXCEPT ![e].pc = "returned", ![e].db_tx = EmptyDb]
    /\ UNCHANGED <<lastOp, lastResult, prevStorage, seed, recording, lastCommit, scenario,
                   overflow_checks>>

SharedNext == \E e \in Engines : SharedCall(e) \/ SharedStart(e) \/ SharedEnd(e)

SharedSpec == SharedInit /\ [][SharedNext]_vars

\* The engines under fair scheduling: an engine whose DbTx is open runs to its
\* commit or return, and a call that waits in start_db_tx gets the write
\* transaction after finitely many others have had it.
FairSharedSpec ==
    /\ SharedSpec
    /\ \A e \in Engines : SF_vars(SharedStart(e)) /\ WF_vars(SharedEnd(e))

\* ------------------------------------------------------------------------
\* The compare-and-set updates of the storage on their own: a DbTx that holds
\* some accounts and transactions, then any sequence of update_account and
\* update_tx calls with any expected value and any new value of the same id.
\* storage holds the DbTx.
\* ------------------------------------------------------------------------
\* the versions of the values that are stored and passed
StoredVersions == {0, 1}

StoredAccounts ==
    {[Account_new(id) EXCEPT !.version = v] : id \in AccIds, v \in StoredVersions}

StoredTxs ==
    {[Transaction_new(id, 1, "Deposit", 1) EXCEPT !.version = v] :
        id \in TxIds, v \in StoredVersions}

\* the databases in which every record is stored under its own id
StoredDbs ==
    {[acc |-> [id \in DOMAIN pick_acc |-> [Account_new(id) EXCEPT !.version = pick_acc[id]]],
      tx |-> [id \in DOMAIN pick_tx |->
                 [Transaction_new(id, 1, "Deposit", 1) EXCEPT !.version = pick_tx[id]]],
      op |-> {}] :
        pick_acc \in UNION {[ids -> StoredVersions] : ids \in SUBSET AccIds},
        pick_tx \in UNION {[ids -> StoredVersions] : ids \in SUBSET TxIds}}

StorageInit ==
    /\ overflow_checks = FALSE
    /\ engines = NoEngines
    /\ storage \in StoredDbs
    /\ seed = storage
    /\ lastOp = NoOp
    /\ lastResult = Ok
    /\ prevStorage = storage
    /\ recording = FALSE
    /\ lastCommit = NoCommit
    /\ scenario = NoScenario

\* Result<(), DbError> of a storage call
DbResult(err) == IF err = "" THEN Ok ELSE Err(err)

UpdateOp(kind, old, new) ==
    [kind |-> kind, acc_id |-> 0, tx_id |-> 0, amount |-> 0, old |-> old, new |-> new]

UpdateAccount ==
    \E old_acc \in StoredAccounts :
      \E new_acc \in {acc \in StoredAccounts : acc.id = old_acc.id} :
        LET w == update_account(storage, old_acc, new_acc)
        IN /\ lastOp = NoOp
           /\ storage' = w.db_tx
           /\ lastResult' = DbResult(w.err)
           /\ lastOp' = UpdateOp("update_account", old_acc, new_acc)
           /\ prevStorage' = storage
           /\ UNCHANGED <<seed, recording, lastCommit, scenario, engines, overflow_checks>>

UpdateTx ==
    \E old_tx \in StoredTxs :
      \E new_tx \in {tx \in StoredTxs : tx.id = old_tx.id} :
        LET w == update_tx(storage, old_tx, new_tx)
        IN /\ lastOp = NoOp
           /\ storage' = w.db_tx
           /\ lastResult' = DbResult(w.err)
           /\ lastOp' = UpdateOp("update_tx", old_tx, new_tx)
           /\ prevStorage' = storage
           /\ UNCHANGED <<seed, recording, lastCommit, scenario, engines, overflow_checks>>

StorageNext == UpdateAccount \/ UpdateTx \/ Continue

StorageSpec == StorageInit /\ [][StorageNext]_vars

\* ------------------------------------------------------------------------

\* CSV input (csv_parser.rs, main.rs read_csv).  A row is a CsvOperation: four
\* optional fields, already trimmed and deserialized.
\* ------------------------------------------------------------------------
OpTypes == {"deposit", "withdraw", "withdrawal", "dispute", "resolve", "chargeback",
            "transfer"}

\* amounts a row may carry: negative, zero and positive ones
RowAmounts == (0 - 1)..MaxAmount

Option(S) == {{}} \cup {{v} : v \in S}

CsvOperation ==
    [op_type : Option(OpTypes), client : Option(AccIds), tx : Option(TxIds),
     amount : Option(RowAmounts)]

\* Result<Operation, CsvParseError>, or the panic of an unwrap
Parsed(operation) == [tag |-> "Operation", field |-> "", operation |-> operation]

MissingField(field) == [tag |-> "MissingField", field |-> field, operation |-> NoOp]

InvalidType == [tag |-> "InvalidType", field |-> "", operation |-> NoOp]

NegativeAmount == [tag |-> "NegativeAmount", field |-> "", operation |-> NoOp]

UnwrapPanic == [tag |-> "panic", field |-> "", operation |-> NoOp]

\* impl TryInto<Operation> for CsvOperation
try_into(row) ==
    IF row.op_type = {} THEN MissingField("type")
    ELSE IF row.client = {} THEN MissingField("client")
    ELSE IF row.tx = {} THEN MissingField("tx")
    ELSE
    LET op_type == CHOOSE v \in row.op_type : TRUE
        client == CHOOSE v \in row.client : TRUE
        tx == CHOOSE v \in row.tx : TRUE
        maybe_amount == row.amount
        \* maybe_amount.unwrap() inside the Operation that is built
        with_amount(kind) ==
            IF maybe_amount = {} THEN UnwrapPanic
            ELSE Parsed(Operation(kind, client, tx, CHOOSE v \in maybe_amount : TRUE))
    IN
    IF (op_type = "deposit" \/ op_type = "withdraw") /\ maybe_amount = {}
    THEN MissingField("amount")
    ELSE IF maybe_amount # {} /\ (CHOOSE v \in maybe_amount : TRUE) < 0
    THEN NegativeAmount
    ELSE CASE op_type = "deposit" -> with_amount("Deposit")
           [] op_type = "withdrawal" -> with_amount("Withdraw")
           [] op_type = "dispute" -> Parsed(Operation("Dispute", client, tx, 0))
           [] op_type = "resolve" -> Parsed(Operation("Resolve", client, tx, 0))
           [] op_type = "chargeback" -> Parsed(Operation("Chargeback", client, tx, 0))
           [] OTHER -> InvalidType

\* what the driver holds after a row: the row and what try_into made of it
RowOp(row, parsed) ==
    [kind |-> "Row", acc_id |-> 0, tx_id |-> 0, amount |-> 0, row |-> row,
     parsed |-> parsed]

\* one iteration of the loop of read_csv on a row that deserializes: a parse
\* error skips the row, a panic ends the process, an Operation is executed
\* and its result dropped
ReadRow ==
    \E row \in CsvOperation :
        LET parse_result == try_into(row)
            r == IF parse_result.tag = "Operation"
                 THEN execute_operation(storage, parse_result.operation)
                 ELSE early_return_without_db_tx(storage, Err(parse_result.tag))
        IN /\ lastOp = NoOp
           /\ r.storage = storage \/ CommitsSinceSeed < MaxCommits
           /\ storage' = r.storage
           /\ lastResult' = r.result
           /\ lastOp' = RowOp(row, parse_result)
           /\ prevStorage' = storage
           /\ UNCHANGED <<seed, recording, lastCommit, scenario, engines, overflow_checks>>

\* a record that does not deserialize into a CsvOperation is skipped
SkipRecord ==
    /\ lastOp = NoOp
    /\ lastOp' = [kind |-> "Record", acc_id |-> 0, tx_id |-> 0, amount |-> 0]
    /\ lastResult' = Err("csv error")
    /\ prevStorage' = storage
    /\ UNCHANGED <<storage, seed, recording, lastCommit, scenario, engines, overflow_checks>>

CsvNext == ReadRow \/ SkipRecord \/ Continue

CsvSpec == Init /\ [][CsvNext]_vars

\* ------------------------------------------------------------------------
\* Decimal4 built from a Decimal (decimal.rs).  A Decimal is a mantissa and a
\* scale: mantissa / 10^scale.  A Decimal4 is a number of 0.0001 units.
\* ------------------------------------------------------------------------
RECURSIVE Pow10(_)
Pow10(n) == IF n = 0 THEN 1 ELSE 10 * Pow10(n - 1)

Abs(n) == IF n < 0 THEN 0 - n ELSE n

Sign(n) == IF n < 0 THEN 0 - 1 ELSE 1

\* the decimals that are tried, as <<mantissa, scale>>: the small ones at every
\* scale, and 1.23455, 1.234567 and 1.234543 (the tests of decimal.rs and a
\* midpoint) with their negatives
Decimals ==
    (((0 - MaxMantissa)..MaxMantissa) \X (0..MaxScale))
        \cup {<<123455, 5>>, <<0 - 123455, 5>>, <<1234567, 6>>, <<0 - 1234567, 6>>,
              <<1234543, 6>>, <<0 - 1234543, 6>>}

\* rounding to four places with the midpoint going away from zero
from_decimal_midpoint_away(mantissa, scale) ==
    IF scale <= 4 THEN mantissa * Pow10(4 - scale)
    ELSE LET divisor == Pow10(scale - 4)
             quotient == Abs(mantissa) \div divisor
             remainder == Abs(mantissa) % divisor
         IN IF 2 * remainder >= divisor
            THEN Sign(mantissa) * (quotient + 1)
            ELSE Sign(mantissa) * quotient

\* impl From<Decimal> for Decimal4:
\* value.round_dp_with_strategy(4, RoundingStrategy::MidpointTowardZero).
\* A value of at most four places is returned as it is; otherwise the digits
\* after the fourth are cut off and the magnitude goes up by one unit when
\* what was cut off is more than half a unit.
from_decimal(mantissa, scale) ==
    IF scale <= 4 THEN mantissa * Pow10(4 - scale)
    ELSE LET divisor == Pow10(scale - 4)
             quotient == Abs(mantissa) \div divisor
             remainder == Abs(mantissa) % divisor
         IN IF 2 * remainder > divisor
            THEN Sign(mantissa) * (quotient + 1)
            ELSE Sign(mantissa) * quotient

\* a Decimal that is about to be turned into a Decimal4
DecimalOp(mantissa, scale) ==
    [kind |-> "Decimal", acc_id |-> 0, tx_id |-> 0, amount |-> 0,
     mantissa |-> mantissa, scale |-> scale]

Decimal4(units) == [tag |-> "Decimal4", units |-> units]

DecimalInit ==
    /\ overflow_checks = FALSE
    /\ engines = NoEngines
    /\ storage = EmptyDb
    /\ seed = EmptyDb
    /\ \E value \in Decimals : lastOp = DecimalOp(value[1], value[2])
    /\ lastResult = Ok
    /\ prevStorage = EmptyDb
    /\ recording = FALSE
    /\ lastCommit = NoCommit
    /\ scenario = NoScenario

\* Decimal4::from(value)
FromDecimal ==
    /\ lastOp.kind = "Decimal"
    /\ lastResult = Ok
    /\ lastResult' = Decimal4(from_decimal(lastOp.mantissa, lastOp.scale))
    /\ UNCHANGED <<storage, lastOp, prevStorage, seed, recording, lastCommit, scenario,
                   engines, overflow_checks>>

DecimalNext == FromDecimal

DecimalSpec == DecimalInit /\ [][DecimalNext]_vars

\* ------------------------------------------------------------------------

\* Helpers of the properties
\* ------------------------------------------------------------------------
\* <<available, held, locked>> of account a in database db (<<>> if absent)
Balances(db, a) ==
    IF a \in DOMAIN db.acc
    THEN <<db.acc[a].available, db.acc[a].held, db.acc[a].locked>>
    ELSE <<>>

\* available and held of account a in db
Funds(db, a) ==
    IF a \in DOMAIN db.acc THEN <<db.acc[a].available, db.acc[a].held>> ELSE <<>>

\* total of account a in db; an account that does not exist holds nothing
TotalOf(db, a) == IF a \in DOMAIN db.acc THEN total(db.acc[a]) ELSE 0

\* the state of every transaction of db
TxStates(db) == [t \in DOMAIN db.tx |-> db.tx[t].state]

\* transaction t of db is a deposit of account a in state st
IsDeposit(db, a, t, st) ==
    /\ t \in DOMAIN db.tx
    /\ db.tx[t].account_id = a
    /\ db.tx[t].tx_type = "Deposit"
    /\ db.tx[t].state = st

\* db holds the record that a committed deposit / withdraw (a, t) created
Committed(db, kind, a, t) ==
    /\ t \in DOMAIN db.tx
    /\ db.tx[t].account_id = a
    /\ db.tx[t].tx_type = (IF kind = "Deposit" THEN "Deposit" ELSE "Withdrawal")

IsError(result) == result.tag # "Ok"

\* ------------------------------------------------------------------------
\* Properties
\* ------------------------------------------------------------------------

\* C1: in every committed state every account has available >= 0 and
\* held >= 0 (in particular after the dispute of a deposit whose funds were
\* already withdrawn).
C1_BalancesNonNegative ==
    \A a \in DOMAIN storage.acc :
        storage.acc[a].available >= 0 /\ storage.acc[a].held >= 0

\* C2: an operation that returns an error leaves accounts, transactions and
\* the processed-operation log as they were; a deposit rejected with
\* AccountLocked leaves no Transaction record for its tx id.
C2_ErrorLeavesStorageUnchanged ==
    [][IsError(lastResult') =>
          /\ storage' = storage
          /\ (lastOp'.kind = "Deposit" /\ lastResult'.tag = "AccountLocked"
                 => lastOp'.tx_id \notin DOMAIN storage'.tx)]_vars

\* C2 witness: a deposit with an unused tx id was rejected with AccountLocked
\* after its insert_tx, and the database has no record of that tx id.
C2_Witness ==
    /\ lastOp.kind = "Deposit"
    /\ lastResult.tag = "AccountLocked"
    /\ lastOp.tx_id \notin DOMAIN storage.tx
    /\ storage = prevStorage

\* C3: re-submitting a deposit or withdraw whose (kind, account id, tx id)
\* was committed returns Ok and changes nothing, whatever positive amount
\* the replay carries.
C3_ReplayIsNoOp ==
    [][(/\ lastOp'.kind \in {"Deposit", "Withdraw"}
        /\ is_positive(lastOp'.amount)
        /\ Committed(storage, lastOp'.kind, lastOp'.acc_id, lastOp'.tx_id))
          => (lastResult' = Ok /\ storage' = storage)]_vars

\* C3 witness: a committed deposit was replayed with another positive amount;
\* the replay returned Ok and the database is as before.
C3_Witness ==
    /\ lastOp.kind = "Deposit"
    /\ lastResult = Ok
    /\ Committed(prevStorage, "Deposit", lastOp.acc_id, lastOp.tx_id)
    /\ is_positive(lastOp.amount)
    /\ prevStorage.tx[lastOp.tx_id].amount # lastOp.amount
    /\ storage = prevStorage

\* C4: for a deposit in state Posted, dispute(acc, tx) succeeds, and the
\* resolve(acc, tx) that follows it succeeds and leaves available, held and
\* locked of the account as they were before the dispute.
C4_DisputeThenResolveRestores ==
    [][/\ (lastOp'.kind = "Dispute"
           /\ IsDeposit(storage, lastOp'.acc_id, lastOp'.tx_id, "Posted"))
             => lastResult' = Ok
       /\ (/\ lastCommit.op.kind = "Dispute"
           /\ IsDeposit(lastCommit.from, lastCommit.op.acc_id, lastCommit.op.tx_id, "Posted")
           /\ lastOp'.kind = "Resolve"
           /\ lastOp'.acc_id = lastCommit.op.acc_id
           /\ lastOp'.tx_id = lastCommit.op.tx_id)
             => /\ lastResult' = Ok
                /\ Balances(storage', lastOp'.acc_id)
                      = Balances(lastCommit.from, lastOp'.acc_id)
      ]_vars

\* C5: executing an operation (kind, account id, tx id) again right after it
\* was executed leaves every account's available, held and locked and every
\* transaction's state as after the first execution.  The case at stake is
\* the one whose first execution was committed: the database is then the
\* one that execution left (operations in between, if any, changed nothing).
C5_SecondExecutionChangesNothing ==
    [][(/\ lastOp'.kind \in OpKinds
        /\ lastOp'.kind = lastCommit.op.kind
        /\ lastOp'.acc_id = lastCommit.op.acc_id
        /\ lastOp'.tx_id = lastCommit.op.tx_id)
          => /\ \A a \in AccIds : Balances(storage', a) = Balances(storage, a)
             /\ TxStates(storage') = TxStates(storage)]_vars

\* the change of the total of the account named by operation op that the
\* funds-conservation claim prescribes when op succeeds on database db
PrescribedDelta(db, op) ==
    CASE op.kind = "Deposit" -> op.amount
      [] op.kind = "Withdraw" -> 0 - op.amount
      [] op.kind = "Chargeback" -> 0 - db.tx[op.tx_id].amount
      [] op.kind \in {"Dispute", "Resolve"} -> 0

\* op is a deposit or withdraw whose fingerprint is already in the log of db
IsReplay(db, op) ==
    /\ op.kind \in {"Deposit", "Withdraw"}
    /\ is_operation_processed(db, get_hash_code(op))

TotalIsAvailablePlusHeld(db) ==
    \A a \in DOMAIN db.acc : total(db.acc[a]) = db.acc[a].available + db.acc[a].held

\* C6 as stated: total = available + held, and every operation that returns
\* Ok changes the total of its account by its amount: up for a deposit, down
\* for a withdraw or chargeback, not at all for a dispute or resolve.
C6_EverySuccessMovesTotal ==
    [][(lastResult' = Ok /\ lastOp'.kind \in OpKinds) =>
          /\ TotalIsAvailablePlusHeld(storage')
          /\ TotalOf(storage', lastOp'.acc_id)
                = TotalOf(storage, lastOp'.acc_id) + PrescribedDelta(storage, lastOp')]_vars

\* C6 amended: as above, except that a deposit or withdraw that returns Ok as
\* a replay of an already processed (kind, account id, tx id) leaves the
\* total unchanged.
C6_FundsConserved ==
    [][(lastResult' = Ok /\ lastOp'.kind \in OpKinds) =>
          /\ TotalIsAvailablePlusHeld(storage')
          /\ TotalOf(storage', lastOp'.acc_id)
                = TotalOf(storage, lastOp'.acc_id)
                  + (IF IsReplay(storage, lastOp') THEN 0
                     ELSE PrescribedDelta(storage, lastOp'))]_vars

\* C6 witness: after a deposit and a withdrawal were committed, a chargeback
\* succeeded and lowered the total of its account by the transaction amount.
C6_Witness ==
    /\ lastOp.kind = "Chargeback"
    /\ lastResult = Ok
    /\ TotalOf(storage, lastOp.acc_id)
          = TotalOf(prevStorage, lastOp.acc_id) - prevStorage.tx[lastOp.tx_id].amount
    /\ \E t \in DOMAIN storage.tx : storage.tx[t].tx_type = "Withdrawal"

IsLocked(db, a) == a \in DOMAIN db.acc /\ db.acc[a].locked

\* C7 as stated: once an account is locked it stays locked, no deposit or
\* withdraw changes its available or held, and a deposit or withdraw naming
\* it with an unused tx id returns AccountLocked.
C7_LockedRejectsEveryDepositWithdraw ==
    [][\A a \in AccIds :
          (IsLocked(storage, a) /\ lastOp'.kind \in {"Deposit", "Withdraw"}) =>
              /\ IsLocked(storage', a)
              /\ Funds(storage', a) = Funds(storage, a)
              /\ (lastOp'.acc_id = a /\ lastOp'.tx_id \notin DOMAIN storage.tx)
                    => lastResult'.tag = "AccountLocked"]_vars

\* C7 amended: the same, the AccountLocked result being that of a deposit or
\* withdraw with a positive amount (a non-positive amount is rejected with
\* AmountIsNotPositive before the account is read).
C7_LockedRejectsDepositWithdraw ==
    [][\A a \in AccIds :
          (IsLocked(storage, a) /\ lastOp'.kind \in {"Deposit", "Withdraw"}) =>
              /\ IsLocked(storage', a)
              /\ Funds(storage', a) = Funds(storage, a)
              /\ (/\ lastOp'.acc_id = a
                  /\ lastOp'.tx_id \notin DOMAIN storage.tx
                  /\ is_positive(lastOp'.amount))
                    => lastResult'.tag = "AccountLocked"]_vars

\* C7 witness: a withdraw with an unused tx id and a positive amount was
\* rejected with AccountLocked on a locked account, whose funds are as before.
C7_Witness ==
    /\ lastOp.kind = "Withdraw"
    /\ lastResult.tag = "AccountLocked"
    /\ IsLocked(prevStorage, lastOp.acc_id)
    /\ lastOp.tx_id \notin DOMAIN prevStorage.tx
    /\ is_positive(lastOp.amount)
    /\ Funds(storage, lastOp.acc_id) = Funds(prevStorage, lastOp.acc_id)

\* C8: after a transaction has been charged back, a dispute, resolve or
\* chargeback of it (by its account) returns ForbiddenTxStateTransition and
\* changes neither the transaction nor the balances of the account.
C8_ChargebackIsTerminal ==
    [][(/\ lastOp'.kind \in {"Dispute", "Resolve", "Chargeback"}
        /\ IsDeposit(storage, lastOp'.acc_id, lastOp'.tx_id, "Chargeback"))
          => /\ lastResult'.tag = "ForbiddenTxStateTransition"
             /\ storage'.tx[lastOp'.tx_id] = storage.tx[lastOp'.tx_id]
             /\ Balances(storage', lastOp'.acc_id) = Balances(storage, lastOp'.acc_id)]_vars

\* the transitions the state machine is said to accept
AcceptedTransitions ==
    {<<"Posted", "Disputed">>, <<"Disputed", "Resolved">>,
     <<"Disputed", "Chargeback">>, <<"Resolved", "Disputed">>}

\* C9: on a Deposit-kind transaction set_state accepts exactly
\* Posted->Disputed, Disputed->Resolved, Disputed->Chargeback and
\* Resolved->Disputed; every other pair fails with
\* ForbiddenTxStateTransition{from, to} and leaves state and version unchanged.
C9_SetStateAcceptsExactly ==
    [][(lastOp'.kind = "set_state"
        /\ storage.tx[lastOp'.tx_id].tx_type = "Deposit") =>
          LET old == storage.tx[lastOp'.tx_id]
              new == storage'.tx[lastOp'.tx_id]
              to == lastOp'.new_state
          IN IF <<old.state, to>> \in AcceptedTransitions
             THEN lastResult' = Ok /\ new.state = to
             ELSE /\ lastResult' = ForbiddenTxStateTransition(old.state, to)
                  /\ new.state = old.state
                  /\ new.version = old.version]_vars

\* C10: on a fresh account deposit, dispute, resolve, dispute, chargeback of
\* one transaction succeed at every step and end with available = 0,
\* held = 0 and locked = true.
C10_RedisputeThenChargeback ==
    /\ scenario.step >= 1 => lastResult = Ok
    /\ scenario.step = 5 => Balances(storage, scenario.acc_id) = <<0, 0, TRUE>>

\* account a of db was created by the deposit t and has since seen only the
\* dispute of t: two commits (versions count them), t is its Disputed deposit
AfterDepositDispute(db, a, t) ==
    /\ a \in DOMAIN db.acc
    /\ db.acc[a].version = 2
    /\ IsDeposit(db, a, t, "Disputed")

\* C11: a successful chargeback of a Disputed deposit lowers held by the
\* transaction amount, leaves available unchanged, locks the account and puts
\* the transaction in state Chargeback; after deposit, dispute on a fresh
\* account the chargeback succeeds and ends with available = 0, held = 0,
\* total = 0, locked = true.
C11_ChargebackOfDisputed ==
    [][(/\ lastOp'.kind = "Chargeback"
        /\ IsDeposit(storage, lastOp'.acc_id, lastOp'.tx_id, "Disputed")
        /\ lastOp'.acc_id \in DOMAIN storage.acc) =>
          LET a == lastOp'.acc_id
              t == lastOp'.tx_id
          IN /\ lastResult' = Ok =>
                   /\ storage'.acc[a].held = storage.acc[a].held - storage.tx[t].amount
                   /\ storage'.acc[a].available = storage.acc[a].available
                   /\ storage'.acc[a].locked
                   /\ storage'.tx[t].state = "Chargeback"
             /\ AfterDepositDispute(storage, a, t) =>
                   /\ lastResult' = Ok
                   /\ Balances(storage', a) = <<0, 0, TRUE>>
                   /\ total(storage'.acc[a]) = 0]_vars

\* C11 witness: deposit, dispute, chargeback on a fresh account ended with
\* nothing available, nothing held and the account locked.
C11_Witness ==
    /\ lastOp.kind = "Chargeback"
    /\ lastResult = Ok
    /\ AfterDepositDispute(prevStorage, lastOp.acc_id, lastOp.tx_id)
    /\ Balances(storage, lastOp.acc_id) = <<0, 0, TRUE>>
    /\ storage.tx[lastOp.tx_id].state = "Chargeback"

\* C12: a withdraw with a positive amount, an unused tx id and an existing
\* unlocked account succeeds iff amount <= available; on success available
\* drops by amount, held is unchanged and a Posted Withdrawal transaction is
\* recorded; otherwise it returns InsufficientFunds.
C12_WithdrawIffCovered ==
    [][(/\ lastOp'.kind = "Withdraw"
        /\ is_positive(lastOp'.amount)
        /\ lastOp'.tx_id \notin DOMAIN storage.tx
        /\ lastOp'.acc_id \in DOMAIN storage.acc
        /\ ~storage.acc[lastOp'.acc_id].locked) =>
          LET a == lastOp'.acc_id
              t == lastOp'.tx_id
          IN IF lastOp'.amount <= storage.acc[a].available
             THEN /\ lastResult' = Ok
                  /\ storage'.acc[a].available = storage.acc[a].available - lastOp'.amount
                  /\ storage'.acc[a].held = storage.acc[a].held
                  /\ t \in DOMAIN storage'.tx
                  /\ storage'.tx[t] = [id |-> t, account_id |-> a, tx_type |-> "Withdrawal",
                                       amount |-> lastOp'.amount, state |-> "Posted",
                                       version |-> 0]
             ELSE /\ lastResult' = Err("InsufficientFunds")
                  /\ storage' = storage]_vars

\* C12 witness: a withdraw of exactly the available balance succeeded and
\* left a Posted Withdrawal transaction.
C12_Witness ==
    /\ lastOp.kind = "Withdraw"
    /\ lastResult = Ok
    /\ lastOp.tx_id \notin DOMAIN prevStorage.tx
    /\ lastOp.acc_id \in DOMAIN prevStorage.acc
    /\ prevStorage.acc[lastOp.acc_id].available = lastOp.amount
    /\ storage.acc[lastOp.acc_id].available = 0
    /\ storage.tx[lastOp.tx_id].tx_type = "Withdrawal"
    /\ storage.tx[lastOp.tx_id].state = "Posted"

\* an account record appears in a step only through a successful deposit
\* naming its id, and then holds the deposited amount, nothing held, unlocked
CreatedOnlyByDeposit ==
    \A a \in AccIds :
        (a \notin DOMAIN storage.acc /\ a \in DOMAIN storage'.acc) =>
            /\ lastOp'.kind = "Deposit"
            /\ lastOp'.acc_id = a
            /\ lastResult' = Ok
            /\ Balances(storage', a) = <<lastOp'.amount, 0, FALSE>>

\* C13 as stated: an account is created only by the first successful deposit
\* naming it, with available = amount, held = 0, locked = false; every
\* withdraw naming an account that does not exist returns AccountNotFound and
\* creates neither an account nor a transaction.
C13_EveryWithdrawOfMissingAccount ==
    [][/\ CreatedOnlyByDeposit
       /\ (lastOp'.kind = "Withdraw" /\ lastOp'.acc_id \notin DOMAIN storage.acc) =>
             /\ lastResult' = Err("AccountNotFound")
             /\ DOMAIN storage'.acc = DOMAIN storage.acc
             /\ DOMAIN storage'.tx = DOMAIN storage.tx]_vars

\* C13 amended: the same, the AccountNotFound result being that of a withdraw
\* with a positive amount and an unused tx id (the amount and the tx id are
\* checked before the account is read); no withdraw naming a missing account
\* creates an account or a transaction.
C13_AccountCreation ==
    [][/\ CreatedOnlyByDeposit
       /\ (lastOp'.kind = "Withdraw" /\ lastOp'.acc_id \notin DOMAIN storage.acc) =>
             /\ (is_positive(lastOp'.amount) /\ lastOp'.tx_id \notin DOMAIN storage.tx)
                   => lastResult' = Err("AccountNotFound")
             /\ DOMAIN storage'.acc = DOMAIN storage.acc
             /\ DOMAIN storage'.tx = DOMAIN storage.tx]_vars

\* C13 witness: with one account created by a deposit, a withdraw naming
\* another, missing account returned AccountNotFound and created nothing.
C13_Witness ==
    /\ lastOp.kind = "Withdraw"
    /\ lastResult = Err("AccountNotFound")
    /\ lastOp.acc_id \notin DOMAIN storage.acc
    /\ lastOp.tx_id \notin DOMAIN storage.tx
    /\ \E a \in DOMAIN storage.acc :
          /\ storage.acc[a].version = 1
          /\ \E t \in DOMAIN storage.tx :
                Balances(storage, a) = <<storage.tx[t].amount, 0, FALSE>>

\* every transaction record of this state is still there in the next, for
\* the same account, of the same type and amount
TxRecordsKept ==
    \A t \in DOMAIN storage.tx :
        /\ t \in DOMAIN storage'.tx
        /\ storage'.tx[t].account_id = storage.tx[t].account_id
        /\ storage'.tx[t].tx_type = storage.tx[t].tx_type
        /\ storage'.tx[t].amount = storage.tx[t].amount

\* C14 as stated: a tx id has at most one Transaction record, ever; every
\* deposit or withdraw whose tx id already has a record and which is not a
\* replay of the same (kind, account id, tx id) returns
\* TransactionWithTheSameIdAlreadyExists.
C14_EveryReusedTxId ==
    [][/\ TxRecordsKept
       /\ (/\ lastOp'.kind \in {"Deposit", "Withdraw"}
           /\ lastOp'.tx_id \in DOMAIN storage.tx
           /\ ~Committed(storage, lastOp'.kind, lastOp'.acc_id, lastOp'.tx_id))
             => /\ lastResult' = Err("TransactionWithTheSameIdAlreadyExists")
                /\ storage' = storage]_vars

\* C14 amended: the same for a deposit or withdraw with a positive amount (a
\* non-positive amount is rejected with AmountIsNotPositive before the
\* transaction is looked up); in either case the record is left as it is.
C14_OneRecordPerTxId ==
    [][/\ TxRecordsKept
       /\ (/\ lastOp'.kind \in {"Deposit", "Withdraw"}
           /\ lastOp'.tx_id \in DOMAIN storage.tx
           /\ ~Committed(storage, lastOp'.kind, lastOp'.acc_id, lastOp'.tx_id))
             => /\ is_positive(lastOp'.amount)
                      => lastResult' = Err("TransactionWithTheSameIdAlreadyExists")
                /\ storage' = storage]_vars

\* C14 witness: a withdraw that reused the tx id of a deposit of the same
\* account was rejected with TransactionWithTheSameIdAlreadyExists.
C14_Witness ==
    /\ lastOp.kind = "Withdraw"
    /\ is_positive(lastOp.amount)
    /\ IsDeposit(prevStorage, lastOp.acc_id, lastOp.tx_id, "Posted")
    /\ lastResult = Err("TransactionWithTheSameIdAlreadyExists")
    /\ storage = prevStorage

\* C15: dispute, resolve and chargeback (acc, tx) return TransactionNotFound
\* when no transaction has id tx, and TransactionIsBoundToAnotherAccount(owner)
\* when the transaction belongs to another account, whether or not account
\* acc exists.
C15_NotFoundAndOwnership ==
    [][lastOp'.kind \in {"Dispute", "Resolve", "Chargeback"} =>
          /\ lastOp'.tx_id \notin DOMAIN storage.tx
                => lastResult' = Err("TransactionNotFound") /\ storage' = storage
          /\ (/\ lastOp'.tx_id \in DOMAIN storage.tx
              /\ storage.tx[lastOp'.tx_id].account_id # lastOp'.acc_id)
                => /\ lastResult' = TransactionIsBoundToAnotherAccount(
                                        storage.tx[lastOp'.tx_id].account_id)
                   /\ storage' = storage]_vars

\* C15 witness: a resolve naming an account that does not exist and a
\* transaction of another account returned
\* TransactionIsBoundToAnotherAccount(owner).
C15_Witness ==
    /\ lastOp.kind = "Resolve"
    /\ lastOp.acc_id \notin DOMAIN storage.acc
    /\ lastOp.tx_id \in DOMAIN storage.tx
    /\ lastResult = TransactionIsBoundToAnotherAccount(storage.tx[lastOp.tx_id].account_id)
    /\ storage.tx[lastOp.tx_id].account_id # lastOp.acc_id

\* C16: a dispute, resolve or chargeback that names a Withdrawal transaction
\* of the named account returns InvalidTxType and leaves available and held
\* of the account as they were.
C16_WithdrawalIsNotDisputable ==
    [][(/\ lastOp'.kind \in {"Dispute", "Resolve", "Chargeback"}
        /\ lastOp'.tx_id \in DOMAIN storage.tx
        /\ storage.tx[lastOp'.tx_id].tx_type = "Withdrawal"
        /\ storage.tx[lastOp'.tx_id].account_id = lastOp'.acc_id)
          => /\ lastResult' = Err("InvalidTxType")
             /\ Funds(storage', lastOp'.acc_id) = Funds(storage, lastOp'.acc_id)]_vars

\* C17: a deposit or withdraw with amount <= 0 returns AmountIsNotPositive
\* and touches nothing, even when its (kind, account id, tx id) is already in
\* the processed-operation log.
C17_AmountCheckedFirst ==
    [][(lastOp'.kind \in {"Deposit", "Withdraw"} /\ ~is_positive(lastOp'.amount))
          => /\ lastResult' = Err("AmountIsNotPositive")
             /\ storage' = storage]_vars

\* C17 witness: a deposit with amount 0 whose fingerprint is in the log was
\* rejected with AmountIsNotPositive.
C17_Witness ==
    /\ lastOp.kind = "Deposit"
    /\ ~is_positive(lastOp.amount)
    /\ is_operation_processed(prevStorage, get_hash_code(lastOp))
    /\ lastResult = Err("AmountIsNotPositive")
    /\ storage = prevStorage

\* C18: dispute, resolve and chargeback ignore the locked flag: on a locked
\* account the dispute of a Posted deposit succeeds and moves its amount from
\* available to held, and the resolve and the chargeback of a Disputed
\* deposit succeed.
C18_LockedAccountStillSettles ==
    [][(/\ lastOp'.kind \in {"Dispute", "Resolve", "Chargeback"}
        /\ IsLocked(storage, lastOp'.acc_id)) =>
          LET a == lastOp'.acc_id
              t == lastOp'.tx_id
          IN /\ (lastOp'.kind = "Dispute" /\ IsDeposit(storage, a, t, "Posted")) =>
                   /\ lastResult' = Ok
                   /\ storage'.acc[a].available
                         = storage.acc[a].available - storage.tx[t].amount
                   /\ storage'.acc[a].held = storage.acc[a].held + storage.tx[t].amount
             /\ (lastOp'.kind \in {"Resolve", "Chargeback"}
                 /\ IsDeposit(storage, a, t, "Disputed")) =>
                   lastResult' = Ok]_vars

\* C19: after a successful dispute, resolve or chargeback its fingerprint
\* (kind, account id, tx id) is in the processed-operation log, and
\* re-submitting that operation returns Ok without changing any account or
\* transaction.
C19_SettlementsAreLogged ==
    [][lastOp'.kind \in {"Dispute", "Resolve", "Chargeback"} =>
          /\ lastResult' = Ok
                => is_operation_processed(storage', get_hash_code(lastOp'))
          /\ (/\ lastOp'.kind = lastCommit.op.kind
              /\ lastOp'.acc_id = lastCommit.op.acc_id
              /\ lastOp'.tx_id = lastCommit.op.tx_id)
                => /\ lastResult' = Ok
                   /\ storage'.acc = storage.acc
                   /\ storage'.tx = storage.tx]_vars

\* the version of account a in db; an account that does not exist yet counts
\* from 0
VersionOf(db, a) == IF a \in DOMAIN db.acc THEN db.acc[a].version ELSE 0

\* C24: every successful operation that changes an account increments that
\* account's version by exactly 1 modulo 2^16, a rejected or replayed
\* operation leaves every account as it was, and an account created by its
\* first deposit has version 1.
C24_VersionCountsChanges ==
    lastOp # NoOp =>
        /\ \A a \in DOMAIN storage.acc :
              /\ a \notin DOMAIN prevStorage.acc =>
                    /\ lastOp.kind = "Deposit" /\ lastOp.acc_id = a /\ lastResult = Ok
                    /\ storage.acc[a].version = 1
              /\ (a \in DOMAIN prevStorage.acc /\ storage.acc[a] # prevStorage.acc[a]) =>
                    /\ lastResult = Ok /\ lastOp.acc_id = a
                    /\ storage.acc[a].version = (prevStorage.acc[a].version + 1) % U16
        /\ (lastResult = Ok /\ ~IsReplay(prevStorage, lastOp)) =>
              VersionOf(storage, lastOp.acc_id)
                  = (VersionOf(prevStorage, lastOp.acc_id) + 1) % U16
        /\ (IsError(lastResult) \/ IsReplay(prevStorage, lastOp)) =>
              storage.acc = prevStorage.acc

\* a successful operation took the version of account 1 from 65535 to 0
C24_Witness ==
    /\ lastOp # NoOp
    /\ lastResult = Ok
    /\ prevStorage.acc[1].version = U16 - 1
    /\ storage.acc[1].version = 0

\* C27: a resolve or chargeback that names a deposit which is not Disputed is
\* rejected with ForbiddenTxStateTransition and moves no funds: it neither
\* decreases held nor increases available.
C27_SettlementNeedsDisputed ==
    (/\ lastOp.kind \in {"Resolve", "Chargeback"}
     /\ \E st \in TransactionState \ {"Disputed"} :
            IsDeposit(prevStorage, lastOp.acc_id, lastOp.tx_id, st)) =>
        /\ lastResult.tag = "ForbiddenTxStateTransition"
        /\ storage.acc[lastOp.acc_id].held >= prevStorage.acc[lastOp.acc_id].held
        /\ storage.acc[lastOp.acc_id].available
               <= prevStorage.acc[lastOp.acc_id].available

\* C28: a set_state whose target equals the current state s is rejected with
\* ForbiddenTxStateTransition{from: s, to: s} and changes neither the state
\* nor the version of the transaction.
C28_SameStateIsRejected ==
    (/\ lastOp.kind = "set_state"
     /\ lastOp.new_state = prevStorage.tx[lastOp.tx_id].state) =>
        /\ lastResult = ForbiddenTxStateTransition(lastOp.new_state, lastOp.new_state)
        /\ storage.tx[lastOp.tx_id] = prevStorage.tx[lastOp.tx_id]

\* C29: every dispute, resolve or chargeback that the engine commits increments
\* the version of the transaction it names by exactly 1, a rejected one leaves
\* the transaction as it was, and a transaction that a deposit or withdraw
\* creates has state Posted and version 0.
C29_TxVersionCountsSettlements ==
    /\ (lastOp.kind \in {"Dispute", "Resolve", "Chargeback"}
        /\ lastOp.tx_id \in DOMAIN prevStorage.tx) =>
          IF storage # prevStorage
          THEN storage.tx[lastOp.tx_id].version
                   = (prevStorage.tx[lastOp.tx_id].version + 1) % U16
          ELSE storage.tx[lastOp.tx_id] = prevStorage.tx[lastOp.tx_id]
    /\ \A t \in DOMAIN storage.tx \ DOMAIN prevStorage.tx :
          storage.tx[t].state = "Posted" /\ storage.tx[t].version = 0

\* C30: once the state of a transaction is Chargeback, no operation of the
\* engine changes it.
C30_ChargebackIsAbsorbing ==
    [][\A t \in DOMAIN storage.tx :
          storage.tx[t].state = "Chargeback" =>
              (t \in DOMAIN storage'.tx /\ storage'.tx[t].state = "Chargeback")]_vars

\* a dispute, resolve or chargeback has just been executed on a transaction
\* that was in state Chargeback
C30_Witness ==
    /\ lastOp.kind \in {"Dispute", "Resolve", "Chargeback"}
    /\ IsDeposit(prevStorage, lastOp.acc_id, lastOp.tx_id, "Chargeback")
    /\ storage.tx[lastOp.tx_id].state = "Chargeback"

\* C25: converting a row into an Operation yields an Operation or a
\* CsvParseError and never aborts the run; a row with a negative amount, an
\* unknown type or a missing field is rejected and changes nothing; a
\* `withdrawal` row without an amount is rejected with MissingField(amount).
C25_RowsAreRejectedIndividually ==
    lastOp.kind = "Row" =>
        LET row == lastOp.row
            parsed == lastOp.parsed
        IN /\ parsed.tag \in {"Operation", "MissingField", "InvalidType", "NegativeAmount"}
           /\ parsed.tag # "Operation" => storage = prevStorage
           /\ (\E f \in {"op_type", "client", "tx"} : row[f] = {}) =>
                  parsed.tag = "MissingField"
           /\ (row.op_type = {"withdrawal"} /\ row.client # {} /\ row.tx # {}
               /\ row.amount = {}) => parsed = MissingField("amount")

\* C26: a Decimal4 built from an input with more than four fractional digits
\* is the multiple of 0.0001 nearest to the input, the one nearer to zero when
\* the input is midway between two (1.23455 -> 1.2345, -1.23455 -> -1.2345);
\* an input with at most four fractional digits keeps its value.
C26_RoundsToNearestMidpointTowardZero ==
    (lastOp.kind = "Decimal" /\ lastResult # Ok) =>
        LET units == lastResult.units
            \* the number of places beyond the fourth
            extra == IF lastOp.scale > 4 THEN lastOp.scale - 4 ELSE 0
            \* the input and the result in units of 10^-max(scale, 4)
            input == lastOp.mantissa
                         * (IF lastOp.scale < 4 THEN Pow10(4 - lastOp.scale) ELSE 1)
            output == units * Pow10(extra)
        IN /\ lastResult.tag = "Decimal4"
           /\ lastOp.scale <= 4 => output = input
           /\ 2 * Abs(output - input) <= Pow10(extra)
           /\ 2 * Abs(output - input) = Pow10(extra) => Abs(output) < Abs(input)
           /\ (lastOp.mantissa = 123455 /\ lastOp.scale = 5) => units = 12345
           /\ (lastOp.mantissa = 0 - 123455 /\ lastOp.scale = 5) => units = 0 - 12345

\* 1.23455 has been turned into 1.2345
C26_Witness ==
    /\ lastOp = DecimalOp(123455, 5)
    /\ lastResult = Decimal4(12345)

\* engine e returns in this step
Returns(e) == engines[e].pc # "returned" /\ engines'[e].pc = "returned"

FingerprintOf(tx) ==
    get_hash_code(Operation(IF tx.tx_type = "Deposit" THEN "Deposit" ELSE "Withdraw",
                            tx.account_id, tx.id, tx.amount))

\* between the committed databases db and db2 a transaction record, the
\* fingerprint of its operation and the change of its account appear together,
\* and so do a change of state of a transaction and the move of its amount
VisibleTogether(db, db2) ==
    /\ \A t \in DOMAIN db2.tx \ DOMAIN db.tx :
          LET tx == db2.tx[t]
              a == tx.account_id
              before == IF a \in DOMAIN db.acc THEN db.acc[a].available ELSE 0
          IN /\ FingerprintOf(tx) \in db2.op \ db.op
             /\ a \in DOMAIN db2.acc
             /\ db2.acc[a].available
                    = IF tx.tx_type = "Deposit" THEN before + tx.amount
                      ELSE before - tx.amount
    /\ \A fp \in db2.op \ db.op :
          \E t \in DOMAIN db2.tx \ DOMAIN db.tx : FingerprintOf(db2.tx[t]) = fp
    /\ \A t \in DOMAIN db.tx :
          LET old == db.tx[t]
              new == db2.tx[t]
              a == old.account_id
          IN new.state # old.state =>
                CASE new.state = "Disputed" ->
                        /\ db2.acc[a].held = db.acc[a].held + old.amount
                        /\ db2.acc[a].available = db.acc[a].available - old.amount
                  [] new.state = "Resolved" ->
                        /\ db2.acc[a].held = db.acc[a].held - old.amount
                        /\ db2.acc[a].available = db.acc[a].available + old.amount
                  [] new.state = "Chargeback" ->
                        /\ db2.acc[a].held = db.acc[a].held - old.amount
                        /\ db2.acc[a].locked
                  [] OTHER -> FALSE

C31_TxAccountExists ==
    /\ \A t \in DOMAIN storage.tx : storage.tx[t].account_id \in DOMAIN storage.acc
    /\ lastOp.kind \in {"Dispute", "Resolve", "Chargeback"} =>
          lastResult.tag # "AccountNotFound"

\* a dispute of a recorded transaction by its own account has looked the
\* account up and succeeded
C31_Witness ==
    /\ lastOp.kind = "Dispute"
    /\ lastOp.tx_id \in DOMAIN prevStorage.tx
    /\ prevStorage.tx[lastOp.tx_id].account_id = lastOp.acc_id
    /\ lastResult = Ok

\* the value stored under the id of record `old` in keyspace ks of db, as an
\* Option
StoredUnder(db, ks, old) == IF old.id \in DOMAIN db[ks] THEN {db[ks][old.id]} ELSE {}

\* C32: update_account(old, new) and update_tx(old, new) write new only if the
\* value stored under the id of old equals old; otherwise they fail with
\* ConcurrentModification and leave what is stored as it was.
C32_UpdateIsCompareAndSet ==
    lastOp.kind \in {"update_account", "update_tx"} =>
        LET ks == IF lastOp.kind = "update_account" THEN "acc" ELSE "tx"
            old == lastOp.old
        IN IF StoredUnder(prevStorage, ks, old) = {old}
           THEN /\ lastResult = Ok
                /\ storage = [prevStorage EXCEPT ![ks] = (old.id :> lastOp.new) @@ @]
           ELSE /\ lastResult = Err("ConcurrentModification")
                /\ storage = prevStorage

\* an update_account whose expected value has another version than the stored
\* account has failed
C32_Witness ==
    /\ lastOp.kind = "update_account"
    /\ StoredUnder(prevStorage, "acc", lastOp.old) # {}
    /\ StoredUnder(prevStorage, "acc", lastOp.old) # {lastOp.old}
    /\ lastResult = Err("ConcurrentModification")
    /\ storage = prevStorage

\* the sum of the amounts of the transactions ids of db
RECURSIVE SumAmounts(_, _)
SumAmounts(db, ids) ==
    IF ids = {} THEN 0
    ELSE LET t == CHOOSE x \in ids : TRUE
         IN db.tx[t].amount + SumAmounts(db, ids \ {t})

\* the transactions of account a that are Disputed in db
DisputedOf(db, a) ==
    {t \in DOMAIN db.tx : db.tx[t].account_id = a /\ db.tx[t].state = "Disputed"}

\* C33: in every committed state the held balance of each account equals the
\* sum of the amounts of its transactions that are in state Disputed.
C33_HeldIsSumOfDisputed ==
    \A a \in DOMAIN storage.acc :
        storage.acc[a].held = SumAmounts(storage, DisputedOf(storage, a))

\* C34: in every committed state the fingerprint of deposit(acc, tx), or of
\* withdraw(acc, tx), is in the log if and only if a transaction with id tx,
\* account_id acc and kind Deposit, or Withdrawal, exists: the log is the set
\* of the fingerprints of the stored transactions, each taken from the id,
\* account_id and kind of its record.  A rejected operation leaves the log as
\* it was.
C34_LogAgreesWithTransactions ==
    /\ storage.op = {FingerprintOf(storage.tx[t]) : t \in DOMAIN storage.tx}
    /\ IsError(lastResult) => storage.op = prevStorage.op

\* a deposit that names a transaction id already taken by another account
\* has been rejected, and its fingerprint is not in the log
C34_Witness ==
    /\ lastOp.kind = "Deposit"
    /\ lastResult = Err("TransactionWithTheSameIdAlreadyExists")
    /\ storage.op # {}
    /\ ~is_operation_processed(storage, get_hash_code(lastOp))

\* C35: an engine that executes its operations one after another never
\* returns ConcurrentOperationDetected.
C35_NoConflictWhenSequential ==
    lastResult.tag # "ConcurrentOperationDetected"

\* a deposit to an existing account has inserted its transaction after a
\* lookup that found nothing and updated the account it read, and a dispute
\* has then updated both records it read
C35_Witness ==
    /\ lastOp.kind = "Dispute"
    /\ lastResult = Ok
    /\ storage.acc[lastOp.acc_id].version >= 3
    /\ storage.tx[lastOp.tx_id].version = 1

\* the result that the precedence of C36 gives the deposit or withdraw op on
\* database db
ByPrecedence(db, op) ==
    IF ~is_positive(op.amount) THEN Err("AmountIsNotPositive")
    ELSE IF IsReplay(db, op) THEN Ok
    ELSE IF op.tx_id \in DOMAIN db.tx THEN Err("TransactionWithTheSameIdAlreadyExists")
    ELSE IF op.kind = "Withdraw" /\ op.acc_id \notin DOMAIN db.acc THEN Err("AccountNotFound")
    ELSE IF IsLocked(db, op.acc_id) THEN Err("AccountLocked")
    ELSE IF op.kind = "Withdraw" /\ op.amount > db.acc[op.acc_id].available
         THEN Err("InsufficientFunds")
         ELSE Ok

\* C36: the outcome of a deposit or withdraw follows the precedence
\* AmountIsNotPositive, Ok for a processed fingerprint, 
\* TransactionWithTheSameIdAlreadyExists, AccountNotFound (withdraw only),
\* AccountLocked, InsufficientFunds (withdraw only), whichever of their
\* conditions hold at once.
C36_RejectionsFollowPrecedence ==
    lastOp.kind \in {"Deposit", "Withdraw"} => lastResult = ByPrecedence(prevStorage, lastOp)

\* the replay of a deposit whose account has been locked since, and whose tx
\* id is taken, has returned Ok
C36_Witness ==
    /\ lastOp.kind = "Deposit"
    /\ is_positive(lastOp.amount)
    /\ IsReplay(prevStorage, lastOp)
    /\ lastOp.tx_id \in DOMAIN prevStorage.tx
    /\ IsLocked(prevStorage, lastOp.acc_id)
    /\ lastResult = Ok

\* C37: an operation (acc, tx) changes at most the account acc and the
\* transaction tx; every other account and transaction is left as it was, no
\* account or transaction is removed, and the id, account_id, kind and amount
\* of a transaction never change.
C37_OnlyNamedRecordsChange ==
    /\ \A a \in DOMAIN prevStorage.acc :
          /\ a \in DOMAIN storage.acc
          /\ storage.acc[a].id = a
          /\ a # lastOp.acc_id => storage.acc[a] = prevStorage.acc[a]
    /\ DOMAIN storage.acc \ DOMAIN prevStorage.acc \subseteq {lastOp.acc_id}
    /\ \A t \in DOMAIN prevStorage.tx :
          /\ t \in DOMAIN storage.tx
          /\ storage.tx[t].id = t
          /\ storage.tx[t].account_id = prevStorage.tx[t].account_id
          /\ storage.tx[t].tx_type = prevStorage.tx[t].tx_type
          /\ storage.tx[t].amount = prevStorage.tx[t].amount
          /\ t # lastOp.tx_id => storage.tx[t] = prevStorage.tx[t]
    /\ DOMAIN storage.tx \ DOMAIN prevStorage.tx \subseteq {lastOp.tx_id}

\* a dispute has changed its account and its transaction while another
\* account and another transaction are stored
C37_Witness ==
    /\ lastOp.kind = "Dispute"
    /\ lastResult = Ok
    /\ storage.acc[lastOp.acc_id] # prevStorage.acc[lastOp.acc_id]
    /\ storage.tx[lastOp.tx_id] # prevStorage.tx[lastOp.tx_id]
    /\ DOMAIN prevStorage.acc \ {lastOp.acc_id} # {}
    /\ DOMAIN prevStorage.tx \ {lastOp.tx_id} # {}

\* C38: once the locked flag of an account is true, no operation sets it back
\* to false.
C38_LockedIsMonotone ==
    [][\A a \in AccIds : IsLocked(storage, a) => IsLocked(storage', a)]_vars

\* a dispute has been committed on a locked account, which is still locked
C38_Witness ==
    /\ lastOp.kind = "Dispute"
    /\ lastResult = Ok
    /\ IsLocked(prevStorage, lastOp.acc_id)
    /\ storage.acc[lastOp.acc_id] # prevStorage.acc[lastOp.acc_id]
    /\ IsLocked(storage, lastOp.acc_id)

\* C39: an account becomes locked only through a successful chargeback of one
\* of its own deposits, and a successful chargeback(acc, tx) follows a
\* successful dispute(acc, tx) with no successful resolve or chargeback of tx
\* in between.  The state of the transaction is the record of that history:
\* only a successful dispute sets Disputed, only a successful chargeback sets
\* Chargeback and only a successful resolve sets Resolved, so the chargeback
\* follows such a dispute exactly when it found the transaction Disputed.
C39_ChargebackFollowsItsDispute ==
    /\ \A a \in DOMAIN storage.acc :
          (IsLocked(storage, a) /\ ~IsLocked(prevStorage, a)) =>
              /\ lastOp.kind = "Chargeback"
              /\ lastResult = Ok
              /\ lastOp.acc_id = a
              /\ IsDeposit(prevStorage, a, lastOp.tx_id, "Disputed")
    /\ (lastOp.kind = "Chargeback" /\ lastResult = Ok) =>
          IsDeposit(prevStorage, lastOp.acc_id, lastOp.tx_id, "Disputed")

\* every call of an engine that shares the storage completes
EveryCallCompletes ==
    \A e \in Engines : (engines[e].pc = "called") ~> (engines[e].pc = "returned")

\* the tags of Ok(()) and of the variants of EngineError
EngineResults ==
    {"Ok", "AccountNotFound", "TransactionNotFound", "AccountLocked", "InsufficientFunds",
     "AmountIsNotPositive", "TransactionWithTheSameIdAlreadyExists",
     "TransactionIsBoundToAnotherAccount", "InvalidTxType", "ForbiddenTxStateTransition",
     "ConcurrentOperationDetected", "DatabaseError"}

\* C40: every operation that an engine executes returns Ok or a typed error
\* (and, with it, hands back the DbTx it opened, so that no later operation is
\* blocked).
C40_EveryOperationReturns ==
    lastOp # NoOp => lastResult.tag \in EngineResults

====
